---- MODULE Spec2Model ----
(***************************************************************************)
(* The notification gateway's intake pipeline (AppController), its audit   *)
(* table (notification_audits), the circuit breaker built in UserService,  *)
(* the two RabbitMQ clients and the status callback.                       *)
(*                                                                         *)
(* Every HTTP handler is an async function: the code between two awaits    *)
(* runs without interruption (one Node.js event loop), and other requests  *)
(* interleave at the awaits. One action models one such stretch together   *)
(* with the store call, dependency answer or emit that ends or starts it.  *)
(***************************************************************************)
EXTENDS Naturals, Sequences, FiniteSets

\* ------------------------------------------------------------------ bounds
MaxIntakes == 2     \* number of sendNotification calls in a behaviour of Spec
MaxCalls == 3       \* number of sendNotification calls in a behaviour of SpecBreaker

\* ------------------------------------------------------- program constants
errorThresholdPercentage == 50

\* -------------------------------------------------------------- input sets
Intakes == 1..MaxIntakes
Calls == 1..MaxCalls        \* Intakes and the further calls of SpecBreaker
RequestIds == {"r1", "r2"}
Users == {"u1"}
undefined == "undefined"    \* JavaScript undefined / SQL NULL
NotificationType == {"email", "push"}
NotificationStatus == {"delivered", "pending", "failed"}
Metas == {undefined, "meta"}
CallbackIds == {"r1"}       \* the ids the status endpoints are called with

\* The request bodies submitted: one request per channel, each of which may be
\* submitted any number of times.
SendNotificationDto ==
    { [request_id |-> "r1", user_id |-> "u1", notification_type |-> "email"],
      [request_id |-> "r2", user_id |-> "u1", notification_type |-> "push"] }

\* The bodies of the status callback: meta accompanies a failure report or is
\* left out.
ReportStatusDto ==
    { d \in [notification_id : CallbackIds, status : NotificationStatus, meta : Metas] :
        d.meta # undefined => d.status = "failed" }

\* What GET /users/{id} can answer for user u (the external service's data):
\* every channel allowed, every channel declined, or push allowed with no
\* push token on file.
UserApiData(u) ==
    { [id |-> u, email |-> "mail:" \o u, push_token |-> "token:" \o u,
       preferences |-> [email |-> TRUE, push |-> TRUE]],
      [id |-> u, email |-> "mail:" \o u, push_token |-> "token:" \o u,
       preferences |-> [email |-> FALSE, push |-> FALSE]],
      [id |-> u, email |-> "mail:" \o u, push_token |-> undefined,
       preferences |-> [email |-> FALSE, push |-> TRUE]] }

\* What a caller may put in the status field of a callback body: the enum's
\* values, a state name in capitals, anything else.
StatusValues == NotificationStatus \cup {"DELIVERED", "unknown"}

\* The raw bodies posted to the status callback, before validation.
ReportStatusBodies ==
    ReportStatusDto \cup
    { [notification_id |-> id, status |-> st, meta |-> undefined] :
        id \in CallbackIds, st \in StatusValues \ NotificationStatus }

\* The RabbitMQ clients the module registers: email.queue, push.queue and
\* failed.queue.
ClientsModule == {"email", "push", "failed"}

VARIABLES
    audits,     \* rows of notification_audits, in insertion order
    emits,      \* every client.emit call, in order
    breaker,    \* the opossum breaker: state, pendingClose, window counters
    httpCalls,  \* number of GET /users/{id} calls issued (fetchUserData runs)
    pc,         \* per intake: where the handler is suspended
    req,        \* per intake: the request body
    userData,   \* per intake: what getUserData returned
    created,    \* per intake: the status its audit create has written
    resp,       \* per intake: the HTTP response, once returned
    last        \* the response of the last reportStatus / getNotificationStatus

vars == <<audits, emits, breaker, httpCalls, pc, req, userData, created, resp, last>>

NoReq == [request_id |-> undefined, user_id |-> undefined, notification_type |-> undefined]
NoRow == [requestId |-> undefined]
NoData == [tag |-> "none"]
NoResp == [kind |-> "none", http |-> 0, status |-> undefined]
NoLast == [op |-> "none", id |-> undefined, http |-> 0, current_status |-> undefined]

\* ------------------------------------------------------------ audit store
\* The rows whose requestId is rid.
RowsOf(rid) == {k \in 1..Len(audits) : audits[k].requestId = rid}

\* A lookup that never finds the row.
findNothing(rid) == NoRow

\* prisma.notificationAudit.findUnique({where: {requestId}}): the row or null
findUnique(rid) ==
    IF RowsOf(rid) = {} THEN NoRow ELSE audits[CHOOSE k \in RowsOf(rid) : TRUE]

\* A store without the unique index accepts every insert.
NoUniqueIndex(rid) == TRUE

\* CREATE UNIQUE INDEX notification_audits_requestId_key: an insert is accepted
\* only when no row holds the requestId.
UniqueIndexAllows(rid) == RowsOf(rid) = {}

\* ------------------------------------------------- errors of the dependency
\* An error object as the code inspects it: error.response?.status (0 when
\* there is none), error.code, error.name, whether it is an HttpException and
\* whether error.message includes 'Timed out'.
ErrorObject(kind, responseStatus, code, timedOut) ==
    [kind |-> kind, responseStatus |-> responseStatus, code |-> code,
     name |-> kind, timedOut |-> timedOut]

\* What axios or the breaker's timer raises for each way a call can end badly.
RaisedBy(outcome) ==
    CASE outcome = "404"     -> ErrorObject("AxiosError", 404, "ERR_BAD_REQUEST", FALSE)
      [] outcome = "4xx"     -> ErrorObject("AxiosError", 429, "ERR_BAD_REQUEST", FALSE)
      [] outcome = "5xx"     -> ErrorObject("AxiosError", 503, "ERR_BAD_RESPONSE", FALSE)
      [] outcome = "refused" -> ErrorObject("AxiosError", 0, "ECONNREFUSED", FALSE)
      [] outcome = "timeout" -> ErrorObject("Error", 0, "ETIMEDOUT", TRUE)

\* The breaker's own rejection while it is open: buildError('Breaker is open').
OpenBreakerError == ErrorObject("Error", 0, "EOPENBREAKER", FALSE)

\* A catch block that throws every error on as it came.
rethrowUnchanged(error) == error

\* fetchUserData's catch block: a 404 becomes an HttpException whose response
\* is the message string (so error.response.status is undefined); everything
\* else is thrown on as it came.
fetchUserDataCatch(error) ==
    IF error.responseStatus = 404
    THEN ErrorObject("HttpException", 0, undefined, FALSE)
    ELSE error

\* options.errorFilter as written: false for an error with a response status
\* below 500, true for everything else.
errorFilter(error) ==
    IF error.responseStatus # 0 /\ error.responseStatus < 500 THEN FALSE ELSE TRUE

\* --------------------------------------------------------- circuit breaker
\* new CircuitBreaker(fetchUserData, options). The library reads timeout,
\* errorThresholdPercentage, resetTimeout, name and errorFilter from options;
\* a fallback is registered with breaker.fallback(fn), which this code never
\* calls, so the 'fallback' entry of options is not a registered fallback.
FallbackRegistered == FALSE

\* The same breaker with options.fallback taken as a registered fallback.
FallbackFromOptions == TRUE

\* call(): rejected without running the action unless closed or pending close.
BreakerRejects(b) == b.state # "CLOSED" /\ ~b.pendingClose

close(b) == [b EXCEPT !.state = "CLOSED", !.pendingClose = FALSE]

\* open(): nothing when already open; otherwise OPEN, and the reset timer
\* starts. openFires and openFailures remember what the window held at that
\* moment.
open(b) ==
    IF b.state = "OPEN" THEN b
    ELSE [b EXCEPT !.state = "OPEN", !.pendingClose = FALSE,
                   !.openFires = b.fires, !.openFailures = b.failures]

\* on('success'): a success while half open closes the breaker.
success(b) == IF b.state = "HALF_OPEN" THEN close(b) ELSE b

\* fail(): count the failure, open when the rate exceeds the threshold or the
\* breaker was half open.
fail(b) ==
    LET counted == [b EXCEPT !.failures = @ + 1] IN
    IF counted.failures * 100 > errorThresholdPercentage * counted.fires
       \/ b.state = "HALF_OPEN"
    THEN open(counted) ELSE counted

\* handleError(): a filtered error (errorFilter truthy) is emitted as 'success'
\* and not counted; any other error is counted by fail().
handleError(b, error) == IF errorFilter(error) THEN success(b) ELSE fail(b)

\* Whether fire() resolves with the fallback's value for this error: only an
\* error that was not filtered, or the open-breaker rejection, reaches the
\* fallback, and only a registered fallback answers.
ResolvesWithFallback(error) ==
    /\ FallbackRegistered
    /\ error = OpenBreakerError \/ ~errorFilter(error)

DEFERRED_FALLBACK_SIGNAL == "DEFERRED_BY_CIRCUIT_BREAKER"

\* getUserData: what the controller gets for a fire() that rejected with error
\* (or resolved with the fallback).
getUserDataCatch(error) ==
    IF ResolvesWithFallback(error)
    THEN [tag |-> DEFERRED_FALLBACK_SIGNAL, http |-> 0]
    ELSE IF error.kind = "HttpException"
    THEN [tag |-> "throw", http |-> 404]
    ELSE IF error.code = "ETIMEDOUT" \/ error.name = "CircuitBreakerTimeoutError"
            \/ error.timedOut
    THEN [tag |-> DEFERRED_FALLBACK_SIGNAL, http |-> 0]
    ELSE [tag |-> "throw", http |-> 500]

\* ------------------------------------------------------- intake decisions
DeferredSignal == [tag |-> DEFERRED_FALLBACK_SIGNAL]

Resolved(data) == [tag |-> "UserApiData", data |-> data]

RawPayload(data) ==
    [request_id |-> data.request_id, user_id |-> data.user_id,
     notification_type |-> data.notification_type,
     email_address |-> undefined, push_token |-> undefined]

\* An enrichment that forgets the contact data.
NotEnriched(data, user) == RawPayload(data)

\* enrichedPayload = {...notificationPayload, user_id: userData.id,
\*                    email_address: userData.email, push_token}
enrichedPayload(data, user) ==
    [request_id |-> data.request_id, user_id |-> user.id,
     notification_type |-> data.notification_type,
     email_address |-> user.email, push_token |-> user.push_token]

AuditRow(data, status, payload) ==
    [requestId |-> data.request_id, userId |-> data.user_id,
     notificationType |-> data.notification_type, status |-> status,
     payload |-> payload, failureReason |-> undefined]

\* A preference check that looks at the other channel.
isPreferredSwapped(data, user) ==
    IF data.notification_type = "email"
    THEN user.preferences.push ELSE user.preferences.email

isPreferred(data, user) ==
    IF data.notification_type = "email"
    THEN user.preferences.email ELSE user.preferences.push

\* A decision that stores the raw request on every path.
DecideRowRaw(data, result) ==
    IF result = DeferredSignal
    THEN AuditRow(data, "DEFERRED_CB", RawPayload(data))
    ELSE IF ~isPreferred(data, result.data)
    THEN AuditRow(data, "SKIPPED_OPT_OUT", RawPayload(data))
    ELSE AuditRow(data, "QUEUED", RawPayload(data))

\* The row sendNotification creates for what getUserData returned.
DecideRow(data, result) ==
    IF result = DeferredSignal
    THEN AuditRow(data, "DEFERRED_CB", RawPayload(data))
    ELSE IF ~isPreferred(data, result.data)
    THEN AuditRow(data, "SKIPPED_OPT_OUT", RawPayload(data))
    ELSE AuditRow(data, "QUEUED", enrichedPayload(data, result.data))

\* client = notificationType === EMAIL ? this.emailClient : this.pushClient
clientFor(type) == IF type = "email" THEN "email" ELSE "push"

\* Routing with the two event patterns exchanged.
eventPatternSwapped(type) ==
    IF type = "email" THEN "send_push_event" ELSE "send_email_event"

eventPattern(type) ==
    IF type = "email" THEN "send_email_event" ELSE "send_push_event"

ErrorResp(kind, http) == [kind |-> kind, http |-> http, status |-> undefined]

Accepted(kind) == [kind |-> kind, http |-> 202, status |-> undefined]

\* A handler that logs the failed QUEUED create and carries on.
SwallowAuditFailure == "emit"

\* A failed QUEUED create that is tried again by the handler.
RetryAuditFailure == "create"

\* The catch around the QUEUED create throws: the handler ends there.
AfterAuditFailure == "done"

Init ==
    /\ audits = <<>>
    /\ emits = <<>>
    /\ breaker = [state |-> "CLOSED", pendingClose |-> FALSE, fires |-> 0, failures |-> 0,
                  openFires |-> 0, openFailures |-> 0]
    /\ httpCalls = 0
    /\ pc = [i \in Calls |-> "idle"]
    /\ req = [i \in Calls |-> NoReq]
    /\ userData = [i \in Calls |-> NoData]
    /\ created = [i \in Calls |-> "none"]
    /\ resp = [i \in Calls |-> NoResp]
    /\ last = NoLast

\* A handler that takes a failed lookup for "no such row" and carries on.
LookupIgnoringFailure(i, data, storeUp) ==
    /\ req' = [req EXCEPT ![i] = data]
    /\ IF storeUp /\ findUnique(data.request_id) # NoRow
       THEN /\ pc' = [pc EXCEPT ![i] = "done"]
            /\ resp' = [resp EXCEPT ![i] =
                    [kind |-> "duplicate", http |-> 202,
                     status |-> findUnique(data.request_id).status]]
       ELSE /\ pc' = [pc EXCEPT ![i] = "fetch"]
            /\ resp' = resp

\* The idempotency check for body data: the findUnique, which the store answers
\* (storeUp) or fails, and what the handler does with it.
LookupWith(i, data, storeUp) ==
    /\ req' = [req EXCEPT ![i] = data]
    /\ IF ~storeUp
       THEN /\ pc' = [pc EXCEPT ![i] = "done"]
            /\ resp' = [resp EXCEPT ![i] = ErrorResp("unavailable", 503)]
       ELSE IF findUnique(data.request_id) # NoRow
       THEN /\ pc' = [pc EXCEPT ![i] = "done"]
            /\ resp' = [resp EXCEPT ![i] =
                    [kind |-> "duplicate", http |-> 202,
                     status |-> findUnique(data.request_id).status]]
       ELSE /\ pc' = [pc EXCEPT ![i] = "fetch"]
            /\ resp' = resp

\* sendNotification up to the idempotency check.
Lookup(i) ==
    /\ pc[i] = "idle"
    /\ \A j \in Intakes : j < i => pc[j] # "idle"   \* numbered as they arrive
    /\ \E data \in SendNotificationDto, storeUp \in BOOLEAN : LookupWith(i, data, storeUp)
    /\ UNCHANGED <<audits, emits, breaker, httpCalls, userData, created, last>>

\* The handler after fire() rejected with error (or resolved with a fallback).
AfterRejected(i, error) ==
    LET r == getUserDataCatch(error) IN
    IF r.tag = "throw"
    THEN /\ pc' = [pc EXCEPT ![i] = "done"]
         /\ resp' = [resp EXCEPT ![i] =
                ErrorResp(IF r.http = 404 THEN "not_found" ELSE "dependency_error", r.http)]
         /\ userData' = userData
    ELSE /\ pc' = [pc EXCEPT ![i] = "create"]
         /\ userData' = [userData EXCEPT ![i] = DeferredSignal]
         /\ resp' = resp

\* getUserData -> circuitBreaker.fire(userId): counted as a fire; an open
\* breaker rejects at once, otherwise fetchUserData issues the GET.
Fire(i) ==
    /\ pc[i] = "fetch"
    /\ LET fired == [breaker EXCEPT !.fires = @ + 1] IN
       IF BreakerRejects(fired)
       THEN /\ breaker' = fired
            /\ httpCalls' = httpCalls
            /\ AfterRejected(i, OpenBreakerError)
       ELSE /\ breaker' = [fired EXCEPT !.pendingClose = FALSE]
            /\ httpCalls' = httpCalls + 1
            /\ pc' = [pc EXCEPT ![i] = "calling"]
            /\ UNCHANGED <<userData, resp>>
    /\ UNCHANGED <<audits, emits, req, created, last>>

\* The dependency answers 200 with a profile: 'success' for the breaker, the
\* profile for the handler.
ResolveOk(i) ==
    /\ pc[i] = "calling"
    /\ \E user \in UserApiData(req[i].user_id) :
        userData' = [userData EXCEPT ![i] = Resolved(user)]
    /\ breaker' = success(breaker)
    /\ pc' = [pc EXCEPT ![i] = "create"]
    /\ UNCHANGED <<audits, emits, httpCalls, req, created, resp, last>>

\* The call ends with error: the breaker's handleError, then getUserData's catch.
Rejected(i, error) ==
    /\ pc[i] = "calling"
    /\ breaker' = handleError(breaker, error)
    /\ AfterRejected(i, error)
    /\ UNCHANGED <<audits, emits, httpCalls, req, created, last>>

\* The dependency answers 404.
ResolveNotFound(i) == Rejected(i, fetchUserDataCatch(RaisedBy("404")))

\* The dependency answers another 4xx.
ResolveClientError(i) == Rejected(i, fetchUserDataCatch(RaisedBy("4xx")))

\* The dependency answers 5xx or cannot be reached.
ResolveServerError(i) ==
    \E outcome \in {"5xx", "refused"} : Rejected(i, fetchUserDataCatch(RaisedBy(outcome)))

\* No answer within options.timeout: the breaker's timer raises ETIMEDOUT.
ResolveTimeout(i) == Rejected(i, RaisedBy("timeout"))

\* A create that overwrites the row already stored for the request id (an
\* upsert) and answers as if it had inserted.
CreateOrReplace(i) ==
    /\ pc[i] = "create"
    /\ LET row == DecideRow(req[i], userData[i]) IN
        /\ audits' = IF RowsOf(row.requestId) = {}
                     THEN Append(audits, row)
                     ELSE [k \in 1..Len(audits) |->
                            IF audits[k].requestId = row.requestId
                            THEN row ELSE audits[k]]
        /\ created' = [created EXCEPT ![i] = row.status]
        /\ IF row.status = "QUEUED"
           THEN /\ pc' = [pc EXCEPT ![i] = "emit"]
                /\ UNCHANGED <<resp, userData>>
           ELSE /\ pc' = [pc EXCEPT ![i] = "done"]
                /\ resp' = [resp EXCEPT ![i] =
                        Accepted(IF row.status = "DEFERRED_CB"
                                 THEN "deferred" ELSE "skipped")]
                /\ userData' = [userData EXCEPT ![i] = NoData]
    /\ UNCHANGED <<emits, breaker, httpCalls, req, last>>

\* prisma.notificationAudit.create of the decided row, and the return that
\* follows it on the deferred and the opt-out path.
Create(i) ==
    /\ pc[i] = "create"
    /\ LET row == DecideRow(req[i], userData[i]) IN
       \E storeUp \in BOOLEAN :
        IF storeUp /\ UniqueIndexAllows(row.requestId)
        THEN /\ audits' = Append(audits, row)
             /\ created' = [created EXCEPT ![i] = row.status]
             /\ IF row.status = "QUEUED"
                THEN /\ pc' = [pc EXCEPT ![i] = "emit"]
                     /\ UNCHANGED <<resp, userData>>
                ELSE /\ pc' = [pc EXCEPT ![i] = "done"]
                     /\ resp' = [resp EXCEPT ![i] =
                            Accepted(IF row.status = "DEFERRED_CB"
                                     THEN "deferred" ELSE "skipped")]
                     /\ userData' = [userData EXCEPT ![i] = NoData]
        ELSE /\ audits' = audits
             /\ created' = created
             /\ IF row.status = "QUEUED"
                THEN /\ pc' = [pc EXCEPT ![i] = AfterAuditFailure]
                     /\ IF AfterAuditFailure = "done"
                        THEN /\ resp' = [resp EXCEPT ![i] = ErrorResp("audit_failed", 500)]
                             /\ userData' = [userData EXCEPT ![i] = NoData]
                        ELSE UNCHANGED <<resp, userData>>
                ELSE /\ pc' = [pc EXCEPT ![i] = "done"]
                     /\ resp' = [resp EXCEPT ![i] = ErrorResp("uncaught_store_error", 500)]
                     /\ userData' = [userData EXCEPT ![i] = NoData]
    /\ UNCHANGED <<emits, breaker, httpCalls, req, last>>

\* An emit that deletes the request's row when the broker does not take the
\* message.
EmitRollingBack(i) ==
    /\ pc[i] = "emit"
    /\ \E delivered \in BOOLEAN :
        /\ emits' = Append(emits,
            [client |-> clientFor(req[i].notification_type),
             pattern |-> eventPattern(req[i].notification_type),
             payload |-> enrichedPayload(req[i], userData[i].data),
             delivered |-> delivered, by |-> i])
        /\ audits' = IF delivered THEN audits
                     ELSE SelectSeq(audits, LAMBDA r : r.requestId # req[i].request_id)
    /\ pc' = [pc EXCEPT ![i] = "done"]
    /\ resp' = [resp EXCEPT ![i] = Accepted("queued")]
    /\ userData' = [userData EXCEPT ![i] = NoData]
    /\ UNCHANGED <<breaker, httpCalls, req, created, last>>

\* client.emit(eventPattern, enrichedPayload) and the final success response.
\* The emit is fire-and-forget: the broker may or may not take the message.
Emit(i) ==
    /\ pc[i] = "emit"
    /\ \E delivered \in BOOLEAN :
        emits' = Append(emits,
            [client |-> clientFor(req[i].notification_type),
             pattern |-> eventPattern(req[i].notification_type),
             payload |-> enrichedPayload(req[i], userData[i].data),
             delivered |-> delivered, by |-> i])
    /\ pc' = [pc EXCEPT ![i] = "done"]
    /\ resp' = [resp EXCEPT ![i] = Accepted("queued")]
    /\ userData' = [userData EXCEPT ![i] = NoData]
    /\ UNCHANGED <<audits, breaker, httpCalls, req, created, last>>

\* resetTimeout elapsed since the breaker opened: half open, one probe allowed.
\* resetTimeout (10000) is as long as the rolling window (rollingCountTimeout,
\* not set, 10000), so what had been counted when the breaker opened has left
\* the window; what was counted while it was open has not.
ResetTimeout ==
    /\ breaker.state = "OPEN"
    /\ breaker' = [breaker EXCEPT !.state = "HALF_OPEN", !.pendingClose = TRUE,
                                  !.fires = @ - breaker.openFires,
                                  !.failures = @ - breaker.openFailures,
                                  !.openFires = 0, !.openFailures = 0]
    /\ UNCHANGED <<audits, emits, httpCalls, pc, req, userData, created, resp, last>>

\* The rolling statistics window has moved past every counted call.
WindowRoll ==
    /\ breaker.fires > 0
    /\ breaker' = [breaker EXCEPT !.fires = 0, !.failures = 0,
                                  !.openFires = 0, !.openFailures = 0]
    /\ UNCHANGED <<audits, emits, httpCalls, pc, req, userData, created, resp, last>>

\* String.prototype.toUpperCase on the status values.
toUpperCase(s) ==
    CASE s = "delivered" -> "DELIVERED"
      [] s = "pending"   -> "PENDING"
      [] s = "failed"    -> "FAILED"
      [] OTHER           -> s

\* JSON.stringify(data.meta): undefined for a missing meta.
stringify(meta) == IF meta = undefined THEN undefined ELSE "json:" \o meta

\* The data of the update in reportStatus applied to a row: status is written
\* as it came in the body; a failureReason of undefined leaves the column.
UpdatedRow(row, data) ==
    [row EXCEPT
        !.status = data.status,
        !.failureReason =
            IF toUpperCase(data.status) = "FAILED"
            THEN (IF stringify(data.meta) = undefined THEN @ ELSE stringify(data.meta))
            ELSE undefined]

\* reportStatus with body data: one update by requestId, answered by the
\* store; 404 for P2025 (no such row).
reportStatusCall(data) ==
    LET found == RowsOf(data.notification_id) # {} IN
    /\ audits' = IF found
                 THEN [k \in 1..Len(audits) |->
                        IF audits[k].requestId = data.notification_id
                        THEN UpdatedRow(audits[k], data) ELSE audits[k]]
                 ELSE audits
    /\ last' = [op |-> "reportStatus", id |-> data.notification_id,
                http |-> IF found THEN 200 ELSE 404,
                current_status |-> undefined]
    /\ UNCHANGED <<emits, breaker, httpCalls, pc, req, userData, created, resp>>

\* A validation that lets every value through.
IsAnything(value) == TRUE

\* @IsEnum(NotificationStatus): the value is one of the enum's values.
IsEnum(value) == value \in NotificationStatus

\* The ValidationPipe's answer to a body that fails validation: 400, and the
\* handler does not run.
BadRequest(body) ==
    /\ last' = [op |-> "reportStatus", id |-> body.notification_id,
                http |-> 400, current_status |-> undefined]
    /\ UNCHANGED <<audits, emits, breaker, httpCalls, pc, req, userData, created, resp>>

\* POST :notification_preference/status with a raw body: the controller's
\* ValidationPipe, then the handler.
reportStatusRequest(body) ==
    IF IsEnum(body.status) THEN reportStatusCall(body) ELSE BadRequest(body)

reportStatus == \E body \in ReportStatusBodies : reportStatusRequest(body)

\* The file's second AppController defines reportStatus with the same update
\* (failureReason set when data.status === 'failed') but a catch that only
\* logs: whatever the store answered, the handler returns the success body.
reportStatusSecondCall(data) ==
    LET found == RowsOf(data.notification_id) # {} IN
    /\ audits' = IF found
                 THEN [k \in 1..Len(audits) |->
                        IF audits[k].requestId = data.notification_id
                        THEN UpdatedRow(audits[k], data) ELSE audits[k]]
                 ELSE audits
    /\ last' = [op |-> "reportStatus", id |-> data.notification_id,
                http |-> 200, current_status |-> undefined]
    /\ UNCHANGED <<emits, breaker, httpCalls, pc, req, userData, created, resp>>

reportStatusSecondRequest(body) ==
    IF IsEnum(body.status) THEN reportStatusSecondCall(body) ELSE BadRequest(body)

reportStatusSecond == \E body \in ReportStatusBodies : reportStatusSecondRequest(body)

\* getNotificationStatus: current_status of the row, or 404.
getNotificationStatusCall(requestId) ==
    /\ last' = IF findUnique(requestId) = NoRow
               THEN [op |-> "getNotificationStatus", id |-> requestId,
                     http |-> 404, current_status |-> undefined]
               ELSE [op |-> "getNotificationStatus", id |-> requestId,
                     http |-> 200, current_status |-> findUnique(requestId).status]
    /\ UNCHANGED <<audits, emits, breaker, httpCalls, pc, req, userData, created, resp>>

getNotificationStatus == \E requestId \in CallbackIds : getNotificationStatusCall(requestId)

Next ==
    \/ \E i \in Intakes : Lookup(i)
    \/ \E i \in Intakes : Fire(i)
    \/ \E i \in Intakes : ResolveOk(i)
    \/ \E i \in Intakes : ResolveNotFound(i)
    \/ \E i \in Intakes : ResolveClientError(i)
    \/ \E i \in Intakes : ResolveServerError(i)
    \/ \E i \in Intakes : ResolveTimeout(i)
    \/ \E i \in Intakes : Create(i)
    \/ \E i \in Intakes : Emit(i)
    \/ ResetTimeout
    \/ WindowRoll
    \/ reportStatus
    \/ reportStatusSecond
    \/ getNotificationStatus

Spec == Init /\ [][Next]_vars

\* sendNotification up to the idempotency check, the store answering.
LookupUp(i) ==
    /\ pc[i] = "idle"
    /\ \A j \in Calls : j < i => pc[j] # "idle"
    /\ \E data \in SendNotificationDto : LookupWith(i, data, TRUE)
    /\ UNCHANGED <<audits, emits, breaker, httpCalls, userData, created, last>>

\* The intake pipeline around the breaker with more calls in flight: the
\* store answers every lookup and no status endpoint is called.
NextBreaker ==
    \/ \E i \in Calls : LookupUp(i)
    \/ \E i \in Calls : Fire(i)
    \/ \E i \in Calls : ResolveOk(i)
    \/ \E i \in Calls : ResolveNotFound(i)
    \/ \E i \in Calls : ResolveClientError(i)
    \/ \E i \in Calls : ResolveServerError(i)
    \/ \E i \in Calls : ResolveTimeout(i)
    \/ \E i \in Calls : Create(i)
    \/ \E i \in Calls : Emit(i)
    \/ ResetTimeout
    \/ WindowRoll

SpecBreaker == Init /\ [][NextBreaker]_vars

\* The handler under the event loop: a continuation that can run does run.
\* fire() follows the lookup, the breaker's timer ends a call that has no
\* answer after options.timeout, and the store answers every create (the
\* awaited promise settles), after which the handler emits and returns.
\* The arrival of requests is not forced.
SpecLive ==
    /\ Init
    /\ [][Next]_vars
    /\ \A i \in Intakes :
        /\ WF_vars(Fire(i))
        /\ WF_vars(ResolveTimeout(i))
        /\ WF_vars(Create(i))
        /\ WF_vars(Emit(i))

\* ================================================================ claims
\* The emit calls made for request id rid.
EmitsOf(rid) == {k \in 1..Len(emits) : emits[k].payload.request_id = rid}

\* Intake i takes a step.
Steps(i) == pc'[i] # pc[i]

\* C1: a sendNotification that arrives when a row for its request_id is
\* already stored writes nothing to the audit store, publishes nothing and,
\* provided the store answers the lookup, ends at once with a 202 duplicate
\* response that carries the status stored in that row.
C1_DuplicateShortCircuits ==
    [][\A i \in Intakes :
        (pc[i] = "idle" /\ Steps(i) /\ RowsOf(req'[i].request_id) # {})
        => /\ audits' = audits
           /\ emits' = emits
           /\ httpCalls' = httpCalls
           /\ pc'[i] = "done"
           /\ resp'[i].kind # "unavailable"
              => /\ resp'[i].kind = "duplicate"
                 /\ resp'[i].http = 202
                 /\ \E k \in RowsOf(req'[i].request_id) :
                        resp'[i].status = audits[k].status]_vars

\* A second submission of a request that was queued has been answered as a
\* duplicate carrying QUEUED.
C1_Witness ==
    \E i, j \in Intakes :
        /\ i # j
        /\ req[i] = req[j]
        /\ resp[i].kind = "queued"
        /\ resp[j].kind = "duplicate"
        /\ resp[j].status = "QUEUED"

\* C2: under every interleaving of intakes there is at most one audit row per
\* request_id.
C2_OneRowPerRequestId ==
    \A rid \in RequestIds : Cardinality(RowsOf(rid)) <= 1

\* Two intakes with the same request_id both passed the lookup; one has
\* written its row while the other is still about to create.
C2_Witness ==
    \E i, j \in Intakes :
        /\ i # j
        /\ req[i].request_id = req[j].request_id
        /\ created[i] # "none"
        /\ pc[j] = "create"

\* C3: under every interleaving of intakes at most one emit is ever made for
\* a request_id.
C3_OneEmitPerRequestId ==
    \A rid \in RequestIds : Cardinality(EmitsOf(rid)) <= 1

\* Two intakes with the same request_id both passed the lookup and both
\* decided QUEUED; one has published, the other is about to create.
C3_Witness ==
    \E i, j \in Intakes :
        /\ i # j
        /\ req[i].request_id = req[j].request_id
        /\ resp[i].kind = "queued"
        /\ Len(emits) = 1
        /\ pc[j] = "create"
        /\ userData[j] # DeferredSignal
        /\ isPreferred(req[j], userData[j].data)

\* C4: every emit was made by an intake whose own create had already written
\* a QUEUED row for the emitted request_id, and that row is in the store; an
\* intake about to emit has written its row.
C4_AuditBeforePublish ==
    /\ \A k \in 1..Len(emits) :
        /\ created[emits[k].by] = "QUEUED"
        /\ req[emits[k].by].request_id = emits[k].payload.request_id
        /\ RowsOf(emits[k].payload.request_id) # {}
    /\ \A i \in Intakes :
        pc[i] = "emit" => created[i] = "QUEUED" /\ RowsOf(req[i].request_id) # {}

\* A message has been published and the row written before it is stored.
C4_Witness ==
    \E k \in 1..Len(emits) :
        /\ emits[k].delivered
        /\ \E r \in RowsOf(emits[k].payload.request_id) : audits[r].status = "QUEUED"

\* C5: while the breaker is OPEN, a fresh sendNotification makes no dependency
\* call, gets the deferred signal at once and goes on to create a DEFERRED_CB
\* row.
C5_OpenBreakerDefers ==
    [][\A i \in Intakes :
        (pc[i] = "fetch" /\ Steps(i) /\ breaker.state = "OPEN")
        => /\ httpCalls' = httpCalls
           /\ pc'[i] = "create"
           /\ userData'[i] = DeferredSignal]_vars

\* C6: an intake whose resolved profile declines the requested channel never
\* emits; its create, when the store accepts it, writes a SKIPPED_OPT_OUT row
\* with the raw request and the handler returns 202 skipped.
C6_OptOutSkips ==
    [][\A i \in Intakes :
        (/\ pc[i] = "create"
         /\ Steps(i)
         /\ userData[i] # DeferredSignal
         /\ ~userData[i].data.preferences[req[i].notification_type])
        => /\ emits' = emits
           /\ pc'[i] = "done"
           /\ IF audits' = audits
              THEN resp'[i].http = 500
              ELSE /\ audits' = Append(audits,
                        AuditRow(req[i], "SKIPPED_OPT_OUT", RawPayload(req[i])))
                   /\ resp'[i] = Accepted("skipped")]_vars

\* An opted-out request has been answered as skipped and its row is stored.
C6_Witness ==
    \E i \in Intakes :
        /\ resp[i].kind = "skipped"
        /\ created[i] = "SKIPPED_OPT_OUT"
        /\ \E k \in RowsOf(req[i].request_id) : audits[k].status = "SKIPPED_OPT_OUT"

\* C7: when the dependency answers 404, the intake ends with a 404 not-found
\* response, writes no audit row and emits nothing; an intake that ended
\* not-found has created nothing and published nothing.
C7_NotFoundSurfaces ==
    [][\A i \in Intakes :
        /\ ResolveNotFound(i)
           => /\ pc'[i] = "done"
              /\ resp'[i] = ErrorResp("not_found", 404)
              /\ audits' = audits
              /\ emits' = emits
        /\ resp'[i].kind = "not_found"
           => /\ created'[i] = "none"
              /\ \A k \in 1..Len(emits') : emits'[k].by # i]_vars

\* An intake has ended not-found.
C7_Witness ==
    \E i \in Intakes :
        /\ resp[i].kind = "not_found"
        /\ RowsOf(req[i].request_id) = {}
        /\ httpCalls > 0

\* C8: a fresh request whose profile allows the channel: the accepted create
\* writes a QUEUED row holding the enriched payload, the emit that follows goes
\* to the client and event pattern of the requested channel with the profile's
\* email_address and push_token, and the handler returns 202 queued; once it
\* has returned there is exactly one row and exactly one emit for the id.
C8_FreshRequestQueued ==
    [][\A i \in Intakes :
        LET type == req[i].notification_type
            enriched == [request_id |-> req[i].request_id,
                         user_id |-> userData[i].data.id,
                         notification_type |-> type,
                         email_address |-> userData[i].data.email,
                         push_token |-> userData[i].data.push_token] IN
        /\ (/\ pc[i] = "create"
            /\ Steps(i)
            /\ userData[i] # DeferredSignal
            /\ userData[i].data.preferences[type]
            /\ audits' # audits)
           => /\ audits' = Append(audits, AuditRow(req[i], "QUEUED", enriched))
              /\ pc'[i] = "emit"
              /\ emits' = emits
        /\ (pc[i] = "emit" /\ Steps(i))
           => /\ Len(emits') = Len(emits) + 1
              /\ emits'[Len(emits')].client = type
              /\ emits'[Len(emits')].pattern =
                    (IF type = "email" THEN "send_email_event" ELSE "send_push_event")
              /\ emits'[Len(emits')].payload = enriched
              /\ enriched.email_address = "mail:" \o req[i].user_id
              /\ resp'[i] = Accepted("queued")
              /\ audits' = audits
        /\ resp'[i].kind = "queued"
           => /\ Cardinality({k \in 1..Len(audits') :
                    audits'[k].requestId = req'[i].request_id}) = 1
              /\ Cardinality({k \in 1..Len(emits') :
                    emits'[k].payload.request_id = req'[i].request_id}) = 1]_vars

\* An email request has been accepted, queued once and published once.
C8_Witness ==
    \E i \in Intakes :
        /\ resp[i].kind = "queued"
        /\ req[i].notification_type = "email"
        /\ \E k \in EmitsOf(req[i].request_id) :
            /\ emits[k].pattern = "send_email_event"
            /\ emits[k].payload.email_address = "mail:u1"
        /\ \E k \in RowsOf(req[i].request_id) : audits[k].status = "QUEUED"

\* The terminal states of the audit state machine, in either spelling.
IsTerminal(status) ==
    toUpperCase(status) \in {"DEFERRED_CB", "SKIPPED_OPT_OUT", "DELIVERED", "FAILED"}

\* C9: once a row's status is terminal no step changes it.
C9_TerminalAbsorbing ==
    [][\A k \in 1..Len(audits) :
        IsTerminal(audits[k].status) => audits'[k].status = audits[k].status]_vars

\* C10: once a request has been accepted and queued, a delivered report for
\* its id makes the row's status DELIVERED, and getNotificationStatus answers
\* with the stored status, which is one of the six states of the audit state
\* machine (DELIVERED after such a report).
C10_DeliveredReported ==
    [][/\ \A data \in ReportStatusDto :
            (/\ data.status = "delivered"
             /\ \E i \in Intakes :
                    resp[i].kind = "queued" /\ req[i].request_id = data.notification_id
             /\ \E k \in RowsOf(data.notification_id) : audits[k].status = "QUEUED"
             /\ reportStatusCall(data))
            => \A k \in RowsOf(data.notification_id) : audits'[k].status = "DELIVERED"
       /\ \A requestId \in CallbackIds :
            (getNotificationStatusCall(requestId) /\ RowsOf(requestId) # {})
            => /\ last'.http = 200
               /\ \E k \in RowsOf(requestId) : last'.current_status = audits[k].status
               /\ last'.current_status \in
                    {"QUEUED", "DEFERRED_CB", "SKIPPED_OPT_OUT",
                     "PENDING", "DELIVERED", "FAILED"}]_vars

\* C11: a reportStatus whose notification_id has no audit row answers 404,
\* creates no row and changes no row, whichever definition of the handler
\* serves the route.
C11_UnknownIdNotFound ==
    [][\A data \in ReportStatusDto :
        (/\ RowsOf(data.notification_id) = {}
         /\ reportStatusCall(data) \/ reportStatusSecondCall(data))
        => /\ last'.http = 404
           /\ audits' = audits]_vars

\* C12: when the findUnique of the idempotency check fails, the handler ends
\* with 503 and the step has made no dependency call, no audit write and no
\* emit; an intake that ended that way never fired the breaker, created a row
\* or published.
C12_LookupFailureStops ==
    [][\A i \in Intakes :
        /\ \A data \in SendNotificationDto :
            (pc[i] = "idle" /\ Steps(i) /\ LookupWith(i, data, FALSE))
            => /\ pc'[i] = "done"
               /\ resp'[i] = ErrorResp("unavailable", 503)
               /\ httpCalls' = httpCalls
               /\ breaker' = breaker
               /\ audits' = audits
               /\ emits' = emits
        /\ resp[i].kind = "unavailable"
            => /\ pc'[i] = "done"
               /\ resp'[i] = resp[i]
               /\ created'[i] = "none"
               /\ \A k \in 1..Len(emits') : emits'[k].by # i]_vars

\* An intake has ended with 503 while no row, no emit and no dependency call
\* exist for its request id.
C12_Witness ==
    \E i \in Intakes :
        /\ resp[i] = ErrorResp("unavailable", 503)
        /\ RowsOf(req[i].request_id) = {}
        /\ EmitsOf(req[i].request_id) = {}
        /\ httpCalls = 0

\* C13: a create that the store does not accept, whatever status had been
\* decided, ends the handler with a 500 and no emit; an intake answered with a
\* success for a decided outcome has written its row, and no intake publishes
\* without having written a QUEUED row.
C13_AuditFailureSurfaces ==
    [][\A i \in Intakes :
        /\ (pc[i] = "create" /\ Steps(i) /\ audits' = audits)
            => /\ pc'[i] = "done"
               /\ resp'[i].http = 500
               /\ resp'[i].kind \notin {"queued", "deferred", "skipped"}
               /\ emits' = emits
               /\ created'[i] = "none"
        /\ resp'[i].kind \in {"queued", "deferred", "skipped"}
            => /\ created'[i] # "none"
               /\ \E k \in 1..Len(audits') : audits'[k].requestId = req'[i].request_id
        /\ (resp'[i].http = 500 /\ created'[i] = "none")
            => \A k \in 1..Len(emits') : emits'[k].by # i]_vars

\* One intake's QUEUED create and another's SKIPPED_OPT_OUT or DEFERRED_CB
\* create have both failed; both were answered with 500 and nothing was
\* written or published.
C13_Witness ==
    \E i, j \in Intakes :
        /\ resp[i] = ErrorResp("audit_failed", 500)
        /\ resp[j] = ErrorResp("uncaught_store_error", 500)
        /\ audits = <<>>
        /\ emits = <<>>

\* C14: when the broker does not take the message of an intake's emit, the
\* handler answers with a system error (5xx), not with the accepted-and-queued
\* response.
C14_PublishFailureSurfaces ==
    [][\A i \in Intakes :
        (/\ pc[i] = "emit"
         /\ Steps(i)
         /\ Len(emits') = Len(emits) + 1
         /\ ~emits'[Len(emits')].delivered)
        => /\ resp'[i].http >= 500
           /\ resp'[i].kind \notin {"queued", "skipped", "deferred", "duplicate"}]_vars

\* C15: an emit the broker does not take leaves the audit table as it was, the
\* intake's QUEUED row still stored, and ends the handler: no intake ever
\* emits twice. No step removes a row, and only a status report changes a
\* row's status.
C15_PublishFailureKeepsAudit ==
    [][\A i \in Intakes :
        /\ (/\ pc[i] = "emit"
            /\ Steps(i)
            /\ Len(emits') = Len(emits) + 1
            /\ ~emits'[Len(emits')].delivered)
            => /\ audits' = audits
               /\ created'[i] = "QUEUED"
               /\ \E k \in 1..Len(audits') :
                    audits'[k].requestId = req[i].request_id
               /\ pc'[i] = "done"
        /\ Cardinality({k \in 1..Len(emits') : emits'[k].by = i}) <= 1
        /\ \A k \in 1..Len(audits) :
            /\ Len(audits') >= Len(audits)
            /\ audits'[k].requestId = audits[k].requestId
            /\ (audits'[k].status # audits[k].status)
                => \E data \in ReportStatusDto :
                    reportStatusCall(data) \/ reportStatusSecondCall(data)]_vars

\* An emit was not taken by the broker, its intake has returned, and the row
\* of the request is stored with status QUEUED.
C15_Witness ==
    \E k \in 1..Len(emits) :
        /\ ~emits[k].delivered
        /\ pc[emits[k].by] = "done"
        /\ \E r \in RowsOf(emits[k].payload.request_id) : audits[r].status = "QUEUED"

\* The contact data a channel needs from the profile.
ContactOf(type, user) == IF type = "email" THEN user.email ELSE user.push_token

\* C16: when the resolved profile allows the requested channel but holds no
\* contact data for it, the create does not write a QUEUED row and the handler
\* does not go on to emit; no emit ever carries a payload without the contact
\* data of its channel.
C16_MissingContactSurfaces ==
    [][/\ \A i \in Intakes :
            (/\ pc[i] = "create"
             /\ Steps(i)
             /\ userData[i] # DeferredSignal
             /\ userData[i].data.preferences[req[i].notification_type]
             /\ ContactOf(req[i].notification_type, userData[i].data) = undefined)
            => /\ pc'[i] # "emit"
               /\ \A k \in 1..Len(audits') :
                    audits'[k].requestId = req[i].request_id
                    => audits'[k].status # "QUEUED"
       /\ \A k \in 1..Len(emits') :
            ContactOf(emits'[k].client,
                      [email |-> emits'[k].payload.email_address,
                       push_token |-> emits'[k].payload.push_token]) # undefined]_vars

\* C17: a call that ends with a 5xx answer, a connection error or a timeout
\* adds one to the breaker's failure count; a call that ends with any other
\* answer adds nothing; a 404 never opens the breaker and reaches the caller
\* as the 404 it was.
C17_OnlyDependencyFailuresCount ==
    [][\A i \in Intakes :
        /\ (ResolveServerError(i) \/ ResolveTimeout(i))
            => breaker'.failures = breaker.failures + 1
        /\ (ResolveClientError(i) \/ ResolveOk(i))
            => breaker'.failures = breaker.failures
        /\ ResolveNotFound(i)
            => /\ breaker'.failures = breaker.failures
               /\ breaker'.state = "OPEN" => breaker.state = "OPEN"
               /\ resp'[i] = ErrorResp("not_found", 404)]_vars

\* C18: a call that fails (5xx, connection error, timeout) when that one
\* failure is already errorThresholdPercentage of the calls in the window
\* leaves the breaker OPEN; while the breaker is OPEN a fire issues no GET.
C18_ThresholdOpens ==
    [][\A i \in Intakes :
        /\ (/\ ResolveServerError(i) \/ ResolveTimeout(i)
            /\ breaker.fires > 0
            /\ 100 >= errorThresholdPercentage * breaker.fires)
            => breaker'.state = "OPEN"
        /\ (pc[i] = "fetch" /\ Steps(i) /\ breaker.state = "OPEN")
            => /\ httpCalls' = httpCalls
               /\ pc'[i] # "calling"]_vars

\* C19: an OPEN breaker leaves that state only for HALF_OPEN; while it is
\* HALF_OPEN the first fire is the probe and issues the one GET, and every
\* fire after it, while the breaker is still HALF_OPEN, issues no GET and
\* hands the handler the deferred signal.
C19_SingleProbe ==
    [][/\ (breaker.state = "OPEN" /\ breaker'.state # "OPEN")
            => breaker'.state = "HALF_OPEN"
       /\ \A i \in Calls :
            (pc[i] = "fetch" /\ Steps(i) /\ breaker.state = "HALF_OPEN")
            => IF breaker.pendingClose
               THEN /\ httpCalls' = httpCalls + 1
                    /\ pc'[i] = "calling"
               ELSE /\ httpCalls' = httpCalls
                    /\ pc'[i] = "create"
                    /\ userData'[i] = DeferredSignal]_vars

\* C20: when the probe (the only call in flight, fired while HALF_OPEN)
\* succeeds, the breaker is CLOSED and its window holds no failure; while the
\* breaker is CLOSED every fire issues its GET.
C20_ProbeSuccessResets ==
    [][\A i \in Calls :
        /\ (/\ breaker.state = "HALF_OPEN"
            /\ ~breaker.pendingClose
            /\ \A j \in Calls \ {i} : pc[j] # "calling"
            /\ ResolveOk(i))
            => /\ breaker'.state = "CLOSED"
               /\ breaker'.failures = 0
        /\ (pc[i] = "fetch" /\ Steps(i) /\ breaker.state = "CLOSED")
            => /\ httpCalls' = httpCalls + 1
               /\ pc'[i] = "calling"]_vars

\* The call of intake i is the probe in flight: it fired while the breaker was
\* HALF_OPEN and no other call is out.
IsProbe(i) ==
    /\ breaker.state = "HALF_OPEN"
    /\ ~breaker.pendingClose
    /\ pc[i] = "calling"
    /\ \A j \in Calls \ {i} : pc[j] # "calling"

\* C21: when the probe fails (5xx answer, connection error or timeout) the
\* breaker is OPEN again; while it is OPEN no fire issues a GET, and it leaves
\* OPEN only when resetTimeout elapses.
C21_FailedProbeReopens ==
    [][/\ \A i \in Calls :
            /\ (IsProbe(i) /\ (ResolveServerError(i) \/ ResolveTimeout(i)))
                => breaker'.state = "OPEN"
            /\ (pc[i] = "fetch" /\ Steps(i) /\ breaker.state = "OPEN")
                => httpCalls' = httpCalls
       /\ (breaker.state = "OPEN" /\ breaker'.state # "OPEN")
            => (ResetTimeout /\ breaker'.state = "HALF_OPEN")]_vars

\* C22: a call that gets no answer within options.timeout adds one to the
\* breaker's failure count and hands the handler the deferred signal: the
\* handler goes on to create a DEFERRED_CB row, and an intake whose call timed
\* out never ends not-found, never ends with a dependency error and never
\* publishes.
C22_TimeoutDefers ==
    [][\A i \in Calls :
        ResolveTimeout(i)
        => /\ breaker'.failures = breaker.failures + 1
           /\ pc'[i] = "create"
           /\ userData'[i] = DeferredSignal
           /\ DecideRow(req[i], userData'[i]).status = "DEFERRED_CB"
           /\ emits' = emits]_vars

\* C23: while the breaker is CLOSED, a call that ends with a 5xx answer or a
\* connection error hands the handler the deferred signal: no error response,
\* and the handler goes on to create a DEFERRED_CB row without publishing.
C23_DependencyFailureDefers ==
    [][\A i \in Calls :
        (breaker.state = "CLOSED" /\ ResolveServerError(i))
        => /\ pc'[i] = "create"
           /\ userData'[i] = DeferredSignal
           /\ resp'[i] = resp[i]
           /\ DecideRow(req[i], userData'[i]).status = "DEFERRED_CB"
           /\ emits' = emits]_vars

\* C24: a status callback whose status is none of pending, delivered, failed
\* is answered 400 and changes nothing in the audit table; one whose status is
\* among them reaches the handler and updates the row when there is one.
C24_StatusValidated ==
    [][\A body \in ReportStatusBodies :
        (reportStatusRequest(body) \/ reportStatusSecondRequest(body))
        => IF body.status \in {"pending", "delivered", "failed"}
           THEN /\ last'.http # 400
                /\ \A k \in RowsOf(body.notification_id) :
                        audits'[k].status = body.status
           ELSE /\ last'.http = 400
                /\ audits' = audits]_vars

\* A callback with an unrecognised status was answered 400 while a row for
\* its id is stored, with the status an earlier callback gave it.
C24_Witness ==
    /\ last.op = "reportStatus"
    /\ last.http = 400
    /\ \E k \in RowsOf(last.id) : audits[k].status = "pending"

\* C25: an intake whose create meets a row already stored for its request_id
\* (the other intake won) ends as a duplicate: 202 carrying the status the
\* stored row has, not an error.
C25_ConflictIsDuplicate ==
    [][\A i \in Calls :
        (pc[i] = "create" /\ Steps(i) /\ RowsOf(req[i].request_id) # {})
        => /\ resp'[i].kind = "duplicate"
           /\ resp'[i].http = 202
           /\ \E k \in RowsOf(req[i].request_id) :
                resp'[i].status = audits[k].status]_vars

\* C26: a step of an intake leaves every stored row exactly as it was (it can
\* only add a row); a stored row changes only in a step of the status
\* callback, and then its request id, user, channel and payload stay.
C26_IntakeLeavesRows ==
    [][/\ Len(audits') >= Len(audits)
       /\ \A k \in 1..Len(audits) :
            /\ (\E i \in Calls : Steps(i)) => audits'[k] = audits[k]
            /\ audits'[k] # audits[k]
                => /\ \E body \in ReportStatusBodies :
                        reportStatusRequest(body) \/ reportStatusSecondRequest(body)
                   /\ audits'[k].requestId = audits[k].requestId
                   /\ audits'[k].userId = audits[k].userId
                   /\ audits'[k].notificationType = audits[k].notificationType]_vars

\* A second intake for a request id ran to its end as a duplicate after a
\* callback had moved the row on, and the row still has the reported status.
C26_Witness ==
    \E i \in Intakes :
        /\ resp[i].kind = "duplicate"
        /\ resp[i].status = "pending"
        /\ \E k \in RowsOf(req[i].request_id) : audits[k].status = "pending"

\* The stored payload of every intake that created a row: for a QUEUED create
\* it carries the profile's contact data and is the payload the intake emits;
\* for a DEFERRED_CB or SKIPPED_OPT_OUT create it is the request as received.
SnapshotMatches ==
    \A i \in Calls :
        created[i] # "none"
        => \E k \in RowsOf(req[i].request_id) :
            IF created[i] = "QUEUED"
            THEN /\ audits[k].payload.request_id = req[i].request_id
                 /\ audits[k].payload.email_address = "mail:" \o req[i].user_id
                 /\ pc[i] = "emit"
                    => /\ audits[k].payload.email_address = userData[i].data.email
                       /\ audits[k].payload.push_token = userData[i].data.push_token
                 /\ \A e \in 1..Len(emits) :
                        emits[e].by = i => emits[e].payload = audits[k].payload
            ELSE audits[k].payload =
                    [request_id |-> req[i].request_id, user_id |-> req[i].user_id,
                     notification_type |-> req[i].notification_type,
                     email_address |-> undefined, push_token |-> undefined]

\* C27: in every state the stored payload is the enriched payload that is
\* published (QUEUED create) or the raw request (DEFERRED_CB, SKIPPED_OPT_OUT
\* create), and no step of the status callback changes a stored payload.
C27_PayloadSnapshot ==
    [][/\ SnapshotMatches'
       /\ \A body \in ReportStatusBodies :
            (reportStatusRequest(body) \/ reportStatusSecondRequest(body))
            => /\ Len(audits') = Len(audits)
               /\ \A k \in 1..Len(audits) : audits'[k].payload = audits[k].payload]_vars

\* One request was queued, published and then reported delivered, another was
\* recorded without being queued; both rows are stored.
C27_Witness ==
    \E i, j \in Intakes :
        /\ created[i] = "QUEUED"
        /\ \E e \in 1..Len(emits) : emits[e].by = i
        /\ \E k \in RowsOf(req[i].request_id) : audits[k].status = "delivered"
        /\ created[j] \in {"DEFERRED_CB", "SKIPPED_OPT_OUT"}

\* C28: a status callback with status failed on a stored row leaves the row
\* FAILED (in either spelling) with a failure reason, which is the reported
\* meta when the body has one; a callback with any other status leaves the
\* row without a failure reason.
C28_FailureReason ==
    [][\A data \in ReportStatusDto :
        (/\ RowsOf(data.notification_id) # {}
         /\ reportStatusCall(data) \/ reportStatusSecondCall(data))
        => \A k \in RowsOf(data.notification_id) :
            IF data.status = "failed"
            THEN /\ toUpperCase(audits'[k].status) = "FAILED"
                 /\ audits'[k].failureReason # undefined
                 /\ data.meta # undefined
                    => audits'[k].failureReason = "json:" \o data.meta
            ELSE audits'[k].failureReason = undefined]_vars

\* C29: every emit of an email request went through the email client with
\* pattern send_email_event, every emit of a push request through the push
\* client with send_push_event; no emit went through the failed.queue client.
C29_StaticRouting ==
    \A k \in 1..Len(emits) :
        /\ emits[k].client \in ClientsModule \ {"failed"}
        /\ emits[k].payload.notification_type = req[emits[k].by].notification_type
        /\ emits[k].payload.notification_type = "email"
            => emits[k].client = "email" /\ emits[k].pattern = "send_email_event"
        /\ emits[k].payload.notification_type = "push"
            => emits[k].client = "push" /\ emits[k].pattern = "send_push_event"

\* An email request and a push request have both been published.
C29_Witness ==
    /\ \E k \in 1..Len(emits) : emits[k].client = "email"
    /\ \E k \in 1..Len(emits) : emits[k].client = "push"

\* C30: getNotificationStatus answers 200 with the stored status of the row
\* when one holds the request id and 404 when none does, and changes neither
\* the audit table, the breaker, the emits nor any intake.
C30_StatusQuery ==
    [][\A requestId \in CallbackIds :
        getNotificationStatusCall(requestId)
        => /\ IF RowsOf(requestId) = {}
              THEN last'.http = 404 /\ last'.current_status = undefined
              ELSE /\ last'.http = 200
                   /\ \A k \in RowsOf(requestId) :
                        last'.current_status = audits[k].status
           /\ last'.op = "getNotificationStatus"
           /\ last'.id = requestId
           /\ audits' = audits
           /\ breaker' = breaker
           /\ emits' = emits
           /\ httpCalls' = httpCalls
           /\ pc' = pc]_vars

\* A status query for a queued and published request was answered with
\* QUEUED.
C30_Witness ==
    /\ last.op = "getNotificationStatus"
    /\ last.http = 200
    /\ last.current_status = "QUEUED"
    /\ EmitsOf(last.id) # {}

\* C31: an intake that finds a row for its request_id at the idempotency check
\* ends there as a duplicate: the step issues no GET and leaves the breaker's
\* state, its probe permission and its counters as they were, and the intake
\* takes no later step that could fire the breaker.
C31_DuplicateSparesBreaker ==
    [][\A i \in Calls :
        /\ (pc[i] = "idle" /\ Steps(i) /\ RowsOf(req'[i].request_id) # {})
            => /\ pc'[i] = "done"
               /\ resp'[i].kind \in {"duplicate", "unavailable"}
               /\ httpCalls' = httpCalls
               /\ breaker' = breaker
        /\ (resp[i].kind = "duplicate" /\ breaker' # breaker)
            => pc'[i] = pc[i]]_vars

\* A duplicate was answered while the breaker was HALF_OPEN with its probe
\* still to be made.
C31_Witness ==
    \E i \in Calls :
        /\ resp[i].kind = "duplicate"
        /\ breaker.state = "HALF_OPEN"
        /\ breaker.pendingClose
        /\ pc[i] = "done"

\* The six states the audit trail defines.
AuditStates ==
    {"QUEUED", "DEFERRED_CB", "SKIPPED_OPT_OUT", "PENDING", "DELIVERED", "FAILED"}

\* C32: in every reachable state every audit row's status is exactly one of
\* QUEUED, DEFERRED_CB, SKIPPED_OPT_OUT, PENDING, DELIVERED, FAILED.
C32_StatusInSixStates ==
    \A k \in DOMAIN audits : audits[k].status \in AuditStates

\* The request ids whose audit row is DEFERRED_CB.
DeferredIds ==
    {rid \in RequestIds :
        \E k \in RowsOf(rid) : audits[k].status = "DEFERRED_CB"}

\* C33: while the row of a request_id is DEFERRED_CB, a sendNotification with
\* that request_id ends at the idempotency check (as a duplicate carrying
\* DEFERRED_CB when the store answers), no step publishes the request and no
\* intake step changes its row, whatever the breaker's state.
C33_DeferredStaysDeferred ==
    [][\A rid \in DeferredIds :
        /\ \A i \in Intakes :
            /\ (pc[i] = "idle" /\ Steps(i) /\ req'[i].request_id = rid)
                => /\ pc'[i] = "done"
                   /\ resp'[i].kind \in {"duplicate", "unavailable"}
                   /\ resp'[i].kind = "duplicate" => resp'[i].status = "DEFERRED_CB"
            /\ Steps(i) => rid \in DeferredIds'
        /\ EmitsOf(rid)' = {}]_vars

\* After a timed-out lookup left a DEFERRED_CB row, a later intake with the
\* same request id was answered as a duplicate with the breaker CLOSED and the
\* row still DEFERRED_CB and unpublished.
C33_Witness ==
    \E i, j \in Intakes :
        /\ created[i] = "DEFERRED_CB"
        /\ req[j].request_id = req[i].request_id
        /\ resp[j].kind = "duplicate"
        /\ resp[j].status = "DEFERRED_CB"
        /\ breaker.state = "CLOSED"
        /\ req[i].request_id \in DeferredIds
        /\ EmitsOf(req[i].request_id) = {}

\* The audit status that goes with each success response of a fresh request.
StatusOfKind(kind) ==
    CASE kind = "queued" -> "QUEUED"
      [] kind = "deferred" -> "DEFERRED_CB"
      [] kind = "skipped" -> "SKIPPED_OPT_OUT"

\* Intake i returns its response in this step.
Returns(i) == resp[i].kind = "none" /\ resp'[i].kind # "none"

\* C34 as stated: when an intake returns queued, deferred or skipped, a row for
\* its request_id is stored with status QUEUED, DEFERRED_CB or SKIPPED_OPT_OUT
\* respectively at that moment.
C34_RowMatchesResponse ==
    [][\A i \in Intakes :
        (Returns(i) /\ resp'[i].kind \in {"queued", "deferred", "skipped"})
        => \E k \in 1..Len(audits') :
            /\ audits'[k].requestId = req'[i].request_id
            /\ audits'[k].status = StatusOfKind(resp'[i].kind)]_vars

\* C34: when an intake returns queued, deferred or skipped, a row for its
\* request_id is stored, and it is the row this intake's create wrote with
\* QUEUED, DEFERRED_CB or SKIPPED_OPT_OUT respectively. The row carries that
\* status when the response is returned unless a status callback has
\* rewritten it between the create and the response.
C34_RowWrittenBeforeResponse ==
    [][\A i \in Intakes :
        (Returns(i) /\ resp'[i].kind \in {"queued", "deferred", "skipped"})
        => /\ created'[i] = StatusOfKind(resp'[i].kind)
           /\ \E k \in 1..Len(audits') :
                /\ audits'[k].requestId = req'[i].request_id
                /\ \/ audits'[k].status = StatusOfKind(resp'[i].kind)
                   \/ audits'[k].status \in NotificationStatus]_vars

\* One intake was answered deferred and another queued, and their rows carry
\* DEFERRED_CB and QUEUED.
C34_Witness ==
    \E i, j \in Intakes :
        /\ resp[i].kind = "deferred"
        /\ resp[j].kind = "queued"
        /\ \E k \in RowsOf(req[i].request_id) : audits[k].status = "DEFERRED_CB"
        /\ \E k \in RowsOf(req[j].request_id) : audits[k].status = "QUEUED"

\* How far an intake has come.
Rank(p) ==
    CASE p = "idle" -> 0
      [] p = "fetch" -> 1
      [] p = "calling" -> 2
      [] p = "create" -> 3
      [] p = "emit" -> 4
      [] p = "done" -> 5

\* The outcomes of an intake: duplicate, deferred, skipped, queued, not found,
\* or a system error.
Outcomes ==
    {"duplicate", "deferred", "skipped", "queued", "not_found", "unavailable",
     "dependency_error", "audit_failed", "uncaught_store_error"}

\* C35: every intake that has started ends with one outcome, the store
\* answering its calls and the breaker's timer ending a dependency call that
\* has no answer; the outcome, once returned, does not change; and an intake
\* only moves forward: it makes at most one dependency call, one create and
\* one emit.
C35_IntakeCompletes ==
    /\ \A i \in Intakes :
        (pc[i] # "idle") ~> (pc[i] = "done" /\ resp[i].kind \in Outcomes)
    /\ [][\A i \in Intakes :
            /\ Steps(i) => Rank(pc'[i]) > Rank(pc[i])
            /\ resp[i].kind # "none" => resp'[i] = resp[i]
            /\ (pc'[i] = "done") = (resp'[i].kind \in Outcomes)
            /\ pc'[i] = pc[i]
                => /\ created'[i] = created[i]
                   /\ \A k \in 1..Len(emits') : k > Len(emits) => emits'[k].by # i
            /\ Cardinality({k \in 1..Len(emits') : emits'[k].by = i}) <= 1]_vars

\* An intake whose dependency call had no answer was cut off by the timeout
\* and completed as deferred, while another completed as queued.
C35_Witness ==
    \E i, j \in Intakes :
        /\ pc[i] = "done"
        /\ resp[i].kind = "deferred"
        /\ created[i] = "DEFERRED_CB"
        /\ pc[j] = "done"
        /\ resp[j].kind = "queued"
====
